---- MODULE Spec2Model ----
(***************************************************************************)
(* Attendance ledger and scan session controller of smart-school.          *)
(*                                                                         *)
(* The state is the two persisted collections (students, attendance), the  *)
(* React state and refs of the AttendanceScanner component, the timers and *)
(* promises it has pending, and the Html5QrcodeScanner instances it has    *)
(* created.  One action per handler, timer callback or promise callback.   *)
(* Time advances in ticks of one second; the 100 ms start delay is shorter *)
(* than a tick and its timer fires at any moment after it was scheduled.   *)
(*                                                                         *)
(* The AttendanceReports component is the second part: calculateReports as *)
(* an operator on a roster, a ledger and a period, the component state it  *)
(* is stored in, and the handlers that run it.  One tab is mounted at a    *)
(* time, so a behaviour is either one of the scanner or one of the reports.*)
(*                                                                         *)
(* The StudentRegistration component, with performOcr and QRCodeGenerator, *)
(* is the third part; and the scan handler running in two browser tabs on  *)
(* the one stored ledger is followed storage call by storage call.         *)
(***************************************************************************)
EXTENDS Integers, Sequences, FiniteSets, TLC

\* ---------------------------------------------------------------- bounds
MaxDay == 2
MaxScanners == 1
MaxStartTimers == 2
MaxLedger == 2
MaxTabLedger == 4
MaxUuids == 3

\* setTimeout(..., 3000): the re-scan window, in ticks of one second
CooldownTicks == 3
\* setTimeout(..., 3000) of the "was just scanned" message
MessageClearTicks == 3

Days == 1..MaxDay
ScannerIds == 1..MaxScanners

\* identifiers a QR code may decode to; which of them are registered is
\* decided by the roster
DecodedTexts == {"s1", "s2"}

\* rosters the registration flow may have left in storage: "s1" is a
\* registered student, "s2" is one or decodes to no student
Rosters == { <<[id |-> "s1"]>>, <<[id |-> "s1"], [id |-> "s2"]>> }

\* ------------------------------------------------------- surfaced outcomes
\* setMessage / setError: the kind of text shown, and the identifier in it
\* where the code compares it later (line 933)
Msg(k, t) == [kind |-> k, text |-> t]
NoMsg == Msg("none", "")

\* any text about the scanner itself rather than about a scan ("Scanner
\* started", "Scanner stopped.", "Camera error: ...", "Failed to stop
\* scanner gracefully", ...): nothing reads these texts back
ScannerMsg == Msg("scanner", "")

\* what the comparison of line 933 can tell of a captured message: the
\* identifier of a "was just scanned" message, "" for any other message
justScannedText(m) == IF m.kind = "just_scanned" THEN m.text ELSE ""

\* ------------------------------------------------------- error messages
\* a scanner error message, as the words it is made of, and the class the
\* input collaborator gives it
ErrorMessages ==
  { [class |-> "fatal",     words |-> <<"No", "video", "device", "found">>],
    [class |-> "fatal",     words |-> <<"Permission", "denied", "by", "user">>],
    [class |-> "fatal",     words |-> <<"NotAllowedError", "camera">>],
    [class |-> "transient", words |-> <<"No", "QR", "code", "found">>],
    [class |-> "transient", words |-> <<"reader", "already", "running">>],
    [class |-> "transient", words |-> <<"QR", "code", "parse", "error">>] }

\* String.prototype.includes on sequences
includes(s, sub) ==
  \E k \in 0..(Len(s) - Len(sub)) : \A j \in 1..Len(sub) : s[k + j] = sub[j]

\* the NotAllowedError test left out
isCriticalError_NoNotAllowed(words) ==
  \/ includes(words, <<"No", "video", "device">>)
  \/ includes(words, <<"Permission", "denied">>)

isCriticalError(words) ==
  \/ includes(words, <<"No", "video", "device">>)
  \/ includes(words, <<"Permission", "denied">>)
  \/ includes(words, <<"NotAllowedError">>)

\* ------------------------------------------------------- studentService
\* find(s => s.id = studentId): an assignment for the comparison, which is
\* truthy for every record, so the first record is returned
getStudentById_Assigns(studs, studentId) ==
  IF studs # <<>> THEN <<studs[1]>> ELSE <<>>

\* Array.prototype.find: the first match, <<>> for undefined
getStudentById(studs, studentId) ==
  IF \E k \in 1..Len(studs) : studs[k].id = studentId
  THEN LET k == CHOOSE k \in 1..Len(studs) :
                  /\ studs[k].id = studentId
                  /\ \A j \in 1..(k - 1) : studs[j].id # studentId
       IN <<studs[k]>>
  ELSE <<>>

\* ------------------------------------------------------- attendanceService
\* the date compared in another format than the stored one: nothing matches
getAttendanceByDate_FormatMismatch(records, date) == <<>>

getAttendanceByDate(records, date) ==
  SelectSeq(records, LAMBDA r : r.date = date)

\* only the latest record of the day is looked at
isStudentAlreadyPresentToday_OnlyLast(records, studentId, date) ==
  LET todays == getAttendanceByDate(records, date)
  IN /\ todays # <<>>
     /\ todays[Len(todays)].student_id = studentId
     /\ todays[Len(todays)].status = "present"

isStudentAlreadyPresentToday(records, studentId, date) ==
  LET todays == getAttendanceByDate(records, date)
  IN \E k \in 1..Len(todays) :
       todays[k].student_id = studentId /\ todays[k].status = "present"

\* unshift for push
saveAttendanceRecord_Unshift(records, record, stored) ==
  IF stored THEN <<record>> \o records ELSE records

\* the exception is raised after the value was written
saveAttendanceRecord_ThrowsAfterWrite(records, record, stored) ==
  Append(records, record)

\* an event the ledger already holds for the student, date and status is
\* dropped
saveAttendanceRecord_Dedups(records, record, stored) ==
  IF stored /\ ~\E k \in 1..Len(records) :
                   /\ records[k].student_id = record.student_id
                   /\ records[k].date = record.date
                   /\ records[k].status = record.status
  THEN Append(records, record) ELSE records

\* the stored collection after the call; stored = FALSE when
\* localStorage.setItem throws, which leaves the stored value as it was
saveAttendanceRecord(records, record, stored) ==
  IF stored THEN Append(records, record) ELSE records

\* ------------------------------------------------------- state
VARIABLES
  students,            \* localStorage[STUDENTS]
  attendance,          \* localStorage[ATTENDANCE]
  today,               \* the calendar date getFormattedDate returns
  libraryLoaded,       \* window.Html5QrcodeScanner is defined
  scanResult, message, error, isScannerActive, todayAttendance,
  html5QrcodeScannerRef,   \* 0 for null, else a scanner instance
  scannedStudentsRef,      \* the cooldown set
  cooldownTimers,      \* pending timers of line 941: [text, remaining]
  messageTimers,       \* pending timers of line 932 that will clear message
  startTimers,         \* pending timers of line 1004, oldest first
  scanners,            \* the Html5QrcodeScanner instances
  clears,              \* pending clear() promises: [inst, stop], stop = the
                       \* promise of stopScanner, whose callbacks set state
  sinceProcessed,      \* per text, ticks since a decode of it passed the
                       \* cooldown check (saturating at CooldownTicks)
  failedWrites,        \* the students whose event write threw today
  startDate, endDate, reportData, loading,   \* state of AttendanceReports
  firstReport,         \* the first report computed since the reports were
                       \* opened, the period it was computed for, and whether
                       \* a later run was made for that same period
  registration,        \* state of StudentRegistration
  qrInFlight,          \* texts whose QRCode.toDataURL promise is pending
  ocrInFlight,         \* a handleExtractDetails call is suspended at an await
  uuids,               \* how many identifiers uuidv4 has returned
  controllers          \* scan controllers of other tabs on the same storage

vars == << students, attendance, today, libraryLoaded, scanResult, message,
           error, isScannerActive, todayAttendance, html5QrcodeScannerRef,
           scannedStudentsRef, cooldownTimers, messageTimers, startTimers,
           scanners, clears, sinceProcessed, failedWrites,
           startDate, endDate, reportData, loading, firstReport,
           registration, qrInFlight, ocrInFlight, uuids, controllers >>

reportVars == << startDate, endDate, reportData, loading, firstReport >>
registrationVars == << registration, qrInFlight, ocrInFlight, uuids >>
\* what the scanner tab leaves alone: the other components and the other tabs
unmountedVars == << reportVars, registrationVars, controllers >>
storeVars == << students, attendance, failedWrites >>
cooldownVars == << scannedStudentsRef, cooldownTimers, messageTimers, sinceProcessed >>
sessionVars == << isScannerActive, html5QrcodeScannerRef, startTimers, scanners, clears >>

\* ------------------------------------------------------- strings and dates
\* A string that the code orders, parses or changes the case of is the
\* sequence of its characters.
Digits == << "0", "1", "2", "3", "4", "5", "6", "7", "8", "9" >>
UpperCase == << "A", "B", "C", "D", "E", "F", "G", "H", "I", "J", "K", "L", "M",
                "N", "O", "P", "Q", "R", "S", "T", "U", "V", "W", "X", "Y", "Z" >>
LowerCase == << "a", "b", "c", "d", "e", "f", "g", "h", "i", "j", "k", "l", "m",
                "n", "o", "p", "q", "r", "s", "t", "u", "v", "w", "x", "y", "z" >>

\* the code unit of a character of a date string
charCodeAt(c) ==
  IF c = "-" THEN 45 ELSE 47 + (CHOOSE k \in 1..10 : Digits[k] = c)

\* a < b on strings: by code units, a proper prefix first
RECURSIVE stringLess(_, _)
stringLess(a, b) ==
  IF b = <<>> THEN FALSE
  ELSE IF a = <<>> THEN TRUE
  ELSE IF charCodeAt(Head(a)) # charCodeAt(Head(b))
  THEN charCodeAt(Head(a)) < charCodeAt(Head(b))
  ELSE stringLess(Tail(a), Tail(b))

\* the lower-case letter of each upper-case letter
lowerOf ==
  [c \in { UpperCase[j] : j \in 1..26 } |->
     LowerCase[CHOOSE j \in 1..26 : UpperCase[j] = c]]

\* String.prototype.toLowerCase
toLowerCase(s) ==
  [k \in 1..Len(s) |-> IF s[k] \in DOMAIN lowerOf THEN lowerOf[s[k]] ELSE s[k]]

\* the decimal digits of n, zero-padded to width characters
RECURSIVE padStart(_, _)
padStart(n, width) ==
  IF width = 0 THEN <<>>
  ELSE Append(padStart(n \div 10, width - 1), Digits[(n % 10) + 1])

\* the number a sequence of digit characters stands for
RECURSIVE parseDigits(_)
parseDigits(s) ==
  IF s = <<>> THEN 0
  ELSE 10 * parseDigits(SubSeq(s, 1, Len(s) - 1)) + (charCodeAt(s[Len(s)]) - 48)

\* the UTC calendar date of a number of days since 1970-01-01
civilFromDays(z) ==
  LET zz  == z + 719468
      era == zz \div 146097
      doe == zz - era * 146097
      yoe == (doe - doe \div 1460 + doe \div 36524 - doe \div 146096) \div 365
      doy == doe - (365 * yoe + yoe \div 4 - yoe \div 100)
      mp  == (5 * doy + 2) \div 153
      m   == IF mp < 10 THEN mp + 3 ELSE mp - 9
  IN [year  |-> yoe + era * 400 + (IF m <= 2 THEN 1 ELSE 0),
      month |-> m,
      day   |-> doy - (153 * mp + 2) \div 5 + 1]

\* the number of days from 1970-01-01 to a UTC calendar date
daysFromCivil(y, m, d) ==
  LET yy  == IF m <= 2 THEN y - 1 ELSE y
      era == yy \div 400
      yoe == yy - era * 400
      doy == (153 * (IF m > 2 THEN m - 3 ELSE m + 9) + 2) \div 5 + d - 1
      doe == yoe * 365 + yoe \div 4 - yoe \div 100 + doy
  IN era * 146097 + doe - 719468

\* dateObj.toISOString().split('T')[0] for the clock at day number `day`;
\* day 1 is 2024-01-09
getFormattedDate(day) ==
  LET c == civilFromDays(19730 + day)
  IN padStart(c.year, 4) \o <<"-">> \o padStart(c.month, 2) \o <<"-">>
       \o padStart(c.day, 2)

\* new Date(date).getTime() of a YYYY-MM-DD string, in days (the value in
\* milliseconds is 86400000 times this)
getTime(date) ==
  daysFromCivil(parseDigits(SubSeq(date, 1, 4)), parseDigits(SubSeq(date, 6, 7)),
                parseDigits(SubSeq(date, 9, 10)))

\* ------------------------------------------------------- AttendanceReports
\* record.date < endDate for record.date <= endDate
attendanceInPeriod_ExclusiveEnd(records, start, end) ==
  SelectSeq(records, LAMBDA record :
      ~stringLess(record.date, start) /\ stringLess(record.date, end))

\* the two ends of the period put in order before they are used
attendanceInPeriod_OrdersTheEnds(records, start, end) ==
  SelectSeq(records, LAMBDA record :
      IF stringLess(end, start)
      THEN ~stringLess(record.date, end) /\ ~stringLess(start, record.date)
      ELSE ~stringLess(record.date, start) /\ ~stringLess(end, record.date))

\* only the end of the period is tested
attendanceInPeriod_FromTheStart(records, start, end) ==
  SelectSeq(records, LAMBDA record : ~stringLess(end, record.date))

\* the period closed by the later of endDate and the date of the clock
attendanceInPeriod_UntilToday(records, start, end) ==
  SelectSeq(records, LAMBDA record :
      /\ ~stringLess(record.date, start)
      /\ \/ ~stringLess(end, record.date)
         \/ ~stringLess(getFormattedDate(today), record.date))

\* lines 26-28
attendanceInPeriod(records, start, end) ==
  SelectSeq(records, LAMBDA record :
      ~stringLess(record.date, start) /\ ~stringLess(end, record.date))

\* lines 33-37
presentStudentIdsInPeriod(inPeriod) ==
  { inPeriod[k].student_id :
      k \in { j \in 1..Len(inPeriod) : inPeriod[j].status = "present" } }

\* the student a key of a Map or object filled in roster order ends up with
studentOfKey(studs, id) ==
  studs[CHOOSE k \in 1..Len(studs) :
          /\ studs[k].id = id
          /\ \A j \in (k + 1)..Len(studs) : studs[j].id # id]

\* the gender as stored, toLowerCase left out
studentGenderMap_CaseSensitive(studs) ==
  [id \in { studs[k].id : k \in 1..Len(studs) } |->
     LET s == studentOfKey(studs, id)
     IN IF s.gender = <<>> THEN <<>> ELSE s.gender[1]]

\* lines 47-50: (s.gender || '').toLowerCase(); an optional field is <<>>
\* when it is missing and <<value>> otherwise
studentGenderMap(studs) ==
  [id \in { studs[k].id : k \in 1..Len(studs) } |->
     LET s == studentOfKey(studs, id)
     IN toLowerCase(IF s.gender = <<>> THEN <<>> ELSE s.gender[1])]

GirlTokens == { <<"f", "e", "m", "a", "l", "e">>, <<"g", "i", "r", "l">>, <<"g">> }
BoyTokens == { <<"m", "a", "l", "e">>, <<"b", "o", "y">>, <<"b">> }

\* lines 52-69: one of the four counters, tokens and present naming it
genderCount(studs, genderMap, presentIds, tokens, present) ==
  Cardinality({ k \in 1..Len(studs) :
                  /\ genderMap[studs[k].id] \in tokens
                  /\ (studs[k].id \in presentIds) = present })

\* the ratio, not multiplied by 100
percentage_Ratio(presentDays, totalDays) ==
  IF totalDays > 0
  THEN (2 * 100 * presentDays + totalDays) \div (2 * totalDays)
  ELSE 0

\* lines 79 and 86: parseFloat(percentage.toFixed(2)), as the number of
\* hundredths of a percent; toFixed rounds to the nearest, a tie upwards
percentage(presentDays, totalDays) ==
  IF totalDays > 0
  THEN (2 * 10000 * presentDays + totalDays) \div (2 * totalDays)
  ELSE 0

\* the comparator with its operands exchanged: latest first
RECURSIVE sortByDate_Descending(_)
sortByDate_Descending(recs) ==
  IF recs = <<>> THEN <<>>
  ELSE LET r == recs[Len(recs)]
           sorted == sortByDate_Descending(SubSeq(recs, 1, Len(recs) - 1))
           n == Cardinality({ k \in 1..Len(sorted) :
                                getTime(r.date) - getTime(sorted[k].date) <= 0 })
       IN SubSeq(sorted, 1, n) \o <<r>> \o SubSeq(sorted, n + 1, Len(sorted))

\* line 87: Array.prototype.sort with the comparator
\* new Date(a.date).getTime() - new Date(b.date).getTime(); the sort is stable
RECURSIVE sortByDate(_)
sortByDate(recs) ==
  IF recs = <<>> THEN <<>>
  ELSE LET r == recs[Len(recs)]
           sorted == sortByDate(SubSeq(recs, 1, Len(recs) - 1))
           n == Cardinality({ k \in 1..Len(sorted) :
                                getTime(sorted[k].date) - getTime(r.date) <= 0 })
       IN SubSeq(sorted, 1, n) \o <<r>> \o SubSeq(sorted, n + 1, Len(sorted))

\* totalDays as the number of events rather than of distinct dates
individualAttendance_CountsEvents(studs, inPeriod) ==
  [id \in { studs[k].id : k \in 1..Len(studs) } |->
     LET student == studentOfKey(studs, id)
         studentRecordsInPeriod == SelectSeq(inPeriod, LAMBDA r : r.student_id = id)
         presentDays == Cardinality({ studentRecordsInPeriod[k].date :
             k \in { j \in 1..Len(studentRecordsInPeriod) :
                       studentRecordsInPeriod[j].status = "present" } })
         totalAttendanceDaysRecorded == Len(studentRecordsInPeriod)
     IN [name        |-> student.name,
         gender      |-> student.gender,
         presentDays |-> presentDays,
         totalDays   |-> totalAttendanceDaysRecorded,
         percentage  |-> percentage(presentDays, totalAttendanceDaysRecorded),
         history     |-> sortByDate(studentRecordsInPeriod)]]

\* lines 72-89
individualAttendance(studs, inPeriod) ==
  [id \in { studs[k].id : k \in 1..Len(studs) } |->
     LET student == studentOfKey(studs, id)
         studentRecordsInPeriod == SelectSeq(inPeriod, LAMBDA r : r.student_id = id)
         presentDays == Cardinality({ studentRecordsInPeriod[k].date :
             k \in { j \in 1..Len(studentRecordsInPeriod) :
                       studentRecordsInPeriod[j].status = "present" } })
         totalAttendanceDaysRecorded == Cardinality({ studentRecordsInPeriod[k].date :
             k \in 1..Len(studentRecordsInPeriod) })
     IN [name        |-> student.name,
         gender      |-> student.gender,
         presentDays |-> presentDays,
         totalDays   |-> totalAttendanceDaysRecorded,
         percentage  |-> percentage(presentDays, totalAttendanceDaysRecorded),
         history     |-> sortByDate(studentRecordsInPeriod)]]

\* lines 22-100: the value given to setReportData
calculateReports(studs, records, start, end) ==
  LET inPeriod == attendanceInPeriod(records, start, end)
      presentIds == presentStudentIdsInPeriod(inPeriod)
      genderMap == studentGenderMap(studs)
  IN [totalStudents        |-> Len(studs),
      totalPresentInPeriod |-> Cardinality(presentIds),
      totalAbsentInPeriod  |-> Len(studs) - Cardinality(presentIds),
      girlsPresentInPeriod |-> genderCount(studs, genderMap, presentIds, GirlTokens, TRUE),
      girlsAbsentInPeriod  |-> genderCount(studs, genderMap, presentIds, GirlTokens, FALSE),
      boysPresentInPeriod  |-> genderCount(studs, genderMap, presentIds, BoyTokens, TRUE),
      boysAbsentInPeriod   |-> genderCount(studs, genderMap, presentIds, BoyTokens, FALSE),
      individualAttendance |-> individualAttendance(studs, inPeriod)]

\* useState(null) of reportData, and a firstReport not yet made
NoReport == [none |-> TRUE]

\* the reports tab is not the active one: AttendanceReports is not mounted
ReportsNotShown ==
  /\ startDate = <<>>
  /\ endDate = <<>>
  /\ reportData = NoReport
  /\ loading = TRUE
  /\ firstReport = NoReport

\* useState of the registration form before the component is mounted
NoRegistration == [none |-> TRUE]

\* the registration tab is not the active one
RegistrationNotShown ==
  /\ registration = NoRegistration
  /\ qrInFlight = {}
  /\ ocrInFlight = FALSE
  /\ uuids = 0

\* no other tab is open on the same storage
NoControllers == << >>

\* an instance slot: rendering = its render() promise is pending, scanning =
\* it delivers decodes and scan errors, torn = a clear() of it has resolved,
\* cbMessage = the message captured by the onScanSuccess closure it was
\* rendered with
FreeScanner == [used |-> FALSE, rendering |-> FALSE, scanning |-> FALSE,
                torn |-> FALSE, cbMessage |-> ""]

\* an instance nothing refers to any more and that no longer scans is gone
Collect(scs, ref, cls) ==
  [i \in ScannerIds |->
     IF /\ scs[i].used /\ ~scs[i].rendering /\ ~scs[i].scanning
        /\ i # ref /\ \A c \in cls : c.inst # i
     THEN FreeScanner ELSE scs[i]]

Init ==
  /\ students \in Rosters
  /\ attendance = <<>>
  /\ today = 1
  /\ libraryLoaded \in BOOLEAN
  /\ scanResult = ""
  /\ message = NoMsg
  /\ error = NoMsg
  /\ isScannerActive = FALSE
  /\ todayAttendance = <<>>
  /\ html5QrcodeScannerRef = 0
  /\ scannedStudentsRef = {}
  /\ cooldownTimers = {}
  /\ messageTimers = {}
  /\ startTimers = <<>>
  /\ scanners = [i \in ScannerIds |-> FreeScanner]
  /\ clears = {}
  /\ sinceProcessed = [t \in DecodedTexts |-> CooldownTicks]
  /\ failedWrites = {}
  /\ ReportsNotShown
  /\ RegistrationNotShown
  /\ controllers = NoControllers

\* ------------------------------------------------------- scan controller
\* the lookup made on a collection the text is never in
inCooldown_NeverFound(cooldown, decodedText) == FALSE

\* line 929: scannedStudentsRef.current.has(decodedText)
inCooldown(cooldown, decodedText) == decodedText \in cooldown

\* 2000 for 3000
cooldownTimer_TooShort(decodedText) ==
  [text |-> decodedText, remaining |-> CooldownTicks - 1]

\* line 941: the timer that ends the cooldown of decodedText
cooldownTimer(decodedText) == [text |-> decodedText, remaining |-> CooldownTicks]

\* lines 961-967; the event id is fresh because the ledger only grows.  The
\* time-of-day field is displayed only and is left out.
newRecord(records, decodedText, date) ==
  [id |-> Len(records) + 1, student_id |-> decodedText, date |-> date,
   status |-> "present"]

\* onScanSuccess, called by scanner instance i with a decoded text.  The
\* function has no await: it runs to completion as one step.
OnScanSuccess(i, decodedText) ==
  /\ scanners[i].scanning
  /\ IF inCooldown(scannedStudentsRef, decodedText)
     THEN /\ message' = Msg("just_scanned", decodedText)
          \* the timer compares the message its closure captured, so whether
          \* it will clear the message is known when it is scheduled
          /\ messageTimers' =
               IF scanners[i].cbMessage = decodedText
               THEN messageTimers \cup {MessageClearTicks} ELSE messageTimers
          /\ UNCHANGED << storeVars, today, libraryLoaded, unmountedVars, scanResult, error,
                          todayAttendance, sessionVars, scannedStudentsRef,
                          cooldownTimers, sinceProcessed >>
     ELSE /\ scannedStudentsRef' = scannedStudentsRef \cup {decodedText}
          /\ cooldownTimers' = cooldownTimers \cup {cooldownTimer(decodedText)}
          /\ sinceProcessed' = [sinceProcessed EXCEPT ![decodedText] = 0]
          /\ scanResult' = decodedText
          /\ UNCHANGED << students, today, libraryLoaded, unmountedVars, sessionVars, messageTimers >>
          /\ IF getStudentById(students, decodedText) = <<>>
             THEN /\ message' = NoMsg
                  /\ error' = Msg("not_found", "")
                  /\ UNCHANGED << attendance, todayAttendance, failedWrites >>
             ELSE IF isStudentAlreadyPresentToday(attendance, decodedText, today)
             THEN /\ message' = Msg("already_present", "")
                  /\ error' = NoMsg
                  /\ UNCHANGED << attendance, todayAttendance, failedWrites >>
             ELSE \E stored \in BOOLEAN :   \* localStorage.setItem may throw
                    /\ attendance' = saveAttendanceRecord(attendance,
                            newRecord(attendance, decodedText, today), stored)
                    /\ IF stored
                       THEN /\ message' = Msg("marked_present", "")
                            /\ error' = NoMsg
                            /\ todayAttendance' = getAttendanceByDate(attendance', today)
                            /\ UNCHANGED failedWrites
                       ELSE /\ error' = Msg("save_failed", "")
                            /\ message' = NoMsg
                            /\ failedWrites' = failedWrites \cup {decodedText}
                            /\ UNCHANGED todayAttendance

\* onScanError, called by scanner instance i with an error message
OnScanError(i, e) ==
  /\ scanners[i].scanning
  /\ IF isCriticalError(e.words)
     THEN /\ error' = ScannerMsg
          /\ IF html5QrcodeScannerRef # 0
             THEN /\ clears' = clears \cup
                      {[inst |-> html5QrcodeScannerRef, stop |-> FALSE]}
                  /\ html5QrcodeScannerRef' = 0
             ELSE UNCHANGED << clears, html5QrcodeScannerRef >>
          /\ isScannerActive' = FALSE
          /\ UNCHANGED << storeVars, today, libraryLoaded, unmountedVars, scanResult, message,
                          todayAttendance, cooldownVars, startTimers, scanners >>
     ELSE UNCHANGED vars

\* the Start button is rendered only while the session is not active
StartScanner ==
  /\ ~isScannerActive
  /\ Len(startTimers) < MaxStartTimers
  /\ error' = NoMsg
  /\ message' = NoMsg
  /\ isScannerActive' = TRUE
  \* the delayed callback keeps the onScanSuccess of this render, whose
  \* closure holds the message shown when the button was clicked
  /\ startTimers' = Append(startTimers, justScannedText(message))
  /\ UNCHANGED << storeVars, today, libraryLoaded, unmountedVars, scanResult, todayAttendance,
                  cooldownVars, html5QrcodeScannerRef, scanners, clears >>

\* the callback of the 100 ms timer of startScanner; the qr-code-reader
\* element is in the document exactly while isScannerActive
StartTimerFire ==
  /\ startTimers # <<>>
  /\ startTimers' = Tail(startTimers)
  /\ UNCHANGED << storeVars, today, libraryLoaded, unmountedVars, scanResult, message,
                  todayAttendance, cooldownVars, clears >>
  /\ IF ~isScannerActive
     THEN /\ error' = ScannerMsg
          /\ isScannerActive' = FALSE
          /\ UNCHANGED << html5QrcodeScannerRef, scanners >>
     ELSE IF ~libraryLoaded
     THEN /\ error' = ScannerMsg
          /\ isScannerActive' = FALSE
          /\ UNCHANGED << html5QrcodeScannerRef, scanners >>
     ELSE /\ UNCHANGED << error, isScannerActive >>
          /\ IF html5QrcodeScannerRef = 0
             THEN /\ \E i \in ScannerIds : ~scanners[i].used
                  /\ LET i == CHOOSE i \in ScannerIds :
                                /\ ~scanners[i].used
                                /\ \A j \in ScannerIds : j < i => scanners[j].used
                     IN /\ html5QrcodeScannerRef' = i
                        /\ scanners' = [scanners EXCEPT ![i] =
                             [used |-> TRUE, rendering |-> TRUE, scanning |-> FALSE,
                              torn |-> FALSE, cbMessage |-> Head(startTimers)]]
             ELSE /\ scanners' = [scanners EXCEPT
                        ![html5QrcodeScannerRef].rendering = TRUE,
                        ![html5QrcodeScannerRef].cbMessage = Head(startTimers)]
                  /\ UNCHANGED html5QrcodeScannerRef

\* render(...).then
RenderResolve(i) ==
  /\ scanners[i].rendering
  /\ scanners' = Collect([scanners EXCEPT ![i].rendering = FALSE,
                                           ![i].scanning = ~scanners[i].torn],
                         html5QrcodeScannerRef, clears)
  /\ message' = ScannerMsg
  /\ UNCHANGED << storeVars, today, libraryLoaded, unmountedVars, scanResult, error,
                  isScannerActive, todayAttendance, html5QrcodeScannerRef,
                  cooldownVars, startTimers, clears >>

\* render(...).catch
RenderReject(i) ==
  /\ scanners[i].rendering
  /\ error' = ScannerMsg
  /\ isScannerActive' = FALSE
  /\ IF html5QrcodeScannerRef # 0
     THEN /\ clears' = clears \cup
              {[inst |-> html5QrcodeScannerRef, stop |-> FALSE]}
          /\ html5QrcodeScannerRef' = 0
     ELSE UNCHANGED << clears, html5QrcodeScannerRef >>
  /\ scanners' = Collect([scanners EXCEPT ![i].rendering = FALSE],
                         html5QrcodeScannerRef', clears')
  /\ UNCHANGED << storeVars, today, libraryLoaded, unmountedVars, scanResult, message,
                  todayAttendance, cooldownVars, startTimers >>

\* the Stop button is rendered only while the session is active
StopScanner ==
  /\ isScannerActive
  /\ IF html5QrcodeScannerRef # 0
     THEN /\ clears' = clears \cup
              {[inst |-> html5QrcodeScannerRef, stop |-> TRUE]}
          /\ html5QrcodeScannerRef' = 0
          /\ UNCHANGED << isScannerActive, message >>
     ELSE /\ isScannerActive' = FALSE
          /\ message' = ScannerMsg
          /\ UNCHANGED << clears, html5QrcodeScannerRef >>
  /\ UNCHANGED << storeVars, today, libraryLoaded, unmountedVars, scanResult, error,
                  todayAttendance, cooldownVars, startTimers, scanners >>

\* a clear() promise resolves: the instance is torn down
ClearResolve(c) ==
  /\ c \in clears
  /\ clears' = clears \ {c}
  /\ scanners' = Collect([scanners EXCEPT ![c.inst].scanning = FALSE,
                                           ![c.inst].torn = TRUE],
                         html5QrcodeScannerRef, clears')
  /\ IF c.stop
     THEN /\ isScannerActive' = FALSE
          /\ message' = ScannerMsg
          /\ error' = NoMsg
     ELSE UNCHANGED << isScannerActive, message, error >>
  /\ UNCHANGED << storeVars, today, libraryLoaded, unmountedVars, scanResult, todayAttendance,
                  html5QrcodeScannerRef, cooldownVars, startTimers >>

\* a clear() promise rejects: the teardown did not complete, and the
\* instance may or may not go on scanning
ClearReject(c) ==
  /\ c \in clears
  /\ clears' = clears \ {c}
  /\ \E goesOn \in BOOLEAN :
       scanners' = Collect([scanners EXCEPT ![c.inst].scanning = @ /\ goesOn],
                           html5QrcodeScannerRef, clears')
  /\ IF c.stop
     THEN error' = ScannerMsg
     ELSE UNCHANGED error
  /\ UNCHANGED << storeVars, today, libraryLoaded, unmountedVars, scanResult, message,
                  isScannerActive, todayAttendance, html5QrcodeScannerRef,
                  cooldownVars, startTimers >>

\* ------------------------------------------------------- timers and clock
\* the callback deletes nothing from the set
CooldownExpire_KeepsId(tm) ==
  /\ tm \in cooldownTimers
  /\ tm.remaining = 0
  /\ cooldownTimers' = cooldownTimers \ {tm}
  /\ UNCHANGED << storeVars, today, libraryLoaded, unmountedVars, scanResult, message, error,
                  todayAttendance, sessionVars, messageTimers, sinceProcessed,
                  scannedStudentsRef >>

\* the callback of line 941
CooldownExpire(tm) ==
  /\ tm \in cooldownTimers
  /\ tm.remaining = 0
  /\ cooldownTimers' = cooldownTimers \ {tm}
  /\ scannedStudentsRef' = scannedStudentsRef \ {tm.text}
  /\ UNCHANGED << storeVars, today, libraryLoaded, unmountedVars, scanResult, message, error,
                  todayAttendance, sessionVars, messageTimers, sinceProcessed >>

\* the callback of lines 932-936, when its closure's message matches
MessageTimerFire ==
  /\ 0 \in messageTimers
  /\ messageTimers' = messageTimers \ {0}
  /\ message' = NoMsg
  /\ UNCHANGED << storeVars, today, libraryLoaded, unmountedVars, scanResult, error,
                  todayAttendance, sessionVars, scannedStudentsRef,
                  cooldownTimers, sinceProcessed >>

\* one second passes; a timer that is due fires before the next second
Tick ==
  /\ \A tm \in cooldownTimers : tm.remaining > 0
  /\ \A r \in messageTimers : r > 0
  /\ cooldownTimers' = {[tm EXCEPT !.remaining = @ - 1] : tm \in cooldownTimers}
  /\ messageTimers' = {r - 1 : r \in messageTimers}
  /\ sinceProcessed' = [t \in DecodedTexts |->
        IF sinceProcessed[t] < CooldownTicks THEN sinceProcessed[t] + 1
        ELSE CooldownTicks]
  /\ UNCHANGED << storeVars, today, libraryLoaded, unmountedVars, scanResult, message, error,
                  todayAttendance, sessionVars, scannedStudentsRef >>

\* midnight: getFormattedDate returns the next date
DayChange ==
  /\ today < MaxDay
  /\ today' = today + 1
  /\ failedWrites' = {}
  /\ UNCHANGED << students, attendance, libraryLoaded, unmountedVars, scanResult, message, error,
                  todayAttendance, sessionVars, cooldownVars >>

Next ==
  \/ \E i \in ScannerIds, t \in DecodedTexts : OnScanSuccess(i, t)
  \/ \E i \in ScannerIds, e \in ErrorMessages : OnScanError(i, e)
  \/ StartScanner
  \/ StartTimerFire
  \/ \E i \in ScannerIds : RenderResolve(i)
  \/ \E i \in ScannerIds : RenderReject(i)
  \/ StopScanner
  \/ \E c \in clears : ClearResolve(c)
  \/ \E c \in clears : ClearReject(c)
  \/ \E tm \in cooldownTimers : CooldownExpire(tm)
  \/ MessageTimerFire
  \/ Tick
  \/ DayChange

Spec == Init /\ [][Next]_vars

\* ------------------------------------------------------- environments
\* One orderly scanning session after another: the library is loaded, the
\* device never fails to start or to tear down, and the user starts a
\* session only when the previous one is gone and its "was just scanned"
\* banner with it, and stops one only when its scanner runs.  Decodes, scan
\* errors, time and midnight are unrestricted.
Quiet ==
  /\ startTimers = <<>>
  /\ clears = {}
  /\ \A i \in ScannerIds : ~scanners[i].used
  /\ justScannedText(message) = ""

Running ==
  /\ html5QrcodeScannerRef # 0
  /\ scanners[html5QrcodeScannerRef].scanning

InitScan == Init /\ libraryLoaded

NextScan ==
  \/ \E i \in ScannerIds, t \in DecodedTexts : OnScanSuccess(i, t)
  \/ \E i \in ScannerIds, e \in ErrorMessages : OnScanError(i, e)
  \/ Quiet /\ StartScanner
  \/ StartTimerFire
  \/ \E i \in ScannerIds : RenderResolve(i)
  \/ Running /\ StopScanner
  \/ \E c \in clears : ClearResolve(c)
  \/ \E tm \in cooldownTimers : CooldownExpire(tm)
  \/ Tick
  \/ DayChange

SpecScan == InitScan /\ [][NextScan]_vars

\* One session on one day, started once and left running, in which time
\* passes and the event loop runs the timer callbacks that are due.
NextCooldown ==
  \/ \E i \in ScannerIds, t \in DecodedTexts : OnScanSuccess(i, t)
  \/ Quiet /\ StartScanner
  \/ StartTimerFire
  \/ \E i \in ScannerIds : RenderResolve(i)
  \/ \E tm \in cooldownTimers : CooldownExpire(tm)
  \/ Tick

SpecCooldown ==
  /\ InitScan
  /\ [][NextCooldown]_vars
  /\ WF_vars(Tick)
  /\ WF_vars(\E tm \in cooldownTimers : CooldownExpire(tm))

\* Every way a session can start, stop and fail, within one second and one
\* day: the device may fail to start or to tear down, the library may be
\* missing, and the user may press Start and Stop at any moment.
SessionTexts == {"s1"}

NextSession ==
  \/ \E i \in ScannerIds, t \in SessionTexts : OnScanSuccess(i, t)
  \/ \E i \in ScannerIds, e \in ErrorMessages : OnScanError(i, e)
  \/ StartScanner
  \/ StartTimerFire
  \/ \E i \in ScannerIds : RenderResolve(i)
  \/ \E i \in ScannerIds : RenderReject(i)
  \/ StopScanner
  \/ \E c \in clears : ClearResolve(c)
  \/ \E c \in clears : ClearReject(c)

SpecSession == Init /\ [][NextSession]_vars

\* ------------------------------------------------------- the reports tab
\* The reports are opened on a stored roster and ledger, which stay as they
\* are while the tab is shown: the scanner and the registration are other
\* tabs.  The ledger is any sequence of events, as section 4.1 of the
\* specification allows (bulk import, absent events, events of students
\* that are no longer registered).  Its dates are the stored strings, which
\* the reports order and parse; the scan controller only tests dates for
\* equality, and its ledger keeps the day number the string is made from.
ReportDays == 1..3
ReportDates == { getFormattedDate(d) : d \in ReportDays }

\* gender as registered or as read from the card; <<>> is a record without
\* the optional field
Gender(chars) == <<chars>>
NoGender == <<>>

ReportStudent(id, name, gender) == [id |-> id, name |-> name, gender |-> gender]

\* a girl and a boy, under spellings the registration form does not offer
MixedRoster ==
  <<ReportStudent("s1", "Asha", Gender(<<"g">>)),
    ReportStudent("s2", "Ravi", Gender(<<"B", "o", "y">>))>>

ReportRosters ==
  { <<>>,
    <<ReportStudent("s1", "Asha", Gender(<<"F", "e", "m", "a", "l", "e">>))>>,
    <<ReportStudent("s1", "Asha", Gender(<<"G", "I", "R", "L">>))>>,
    <<ReportStudent("s1", "Ravi", Gender(<<"b">>))>>,
    <<ReportStudent("s1", "Ravi", NoGender)>>,
    <<ReportStudent("s1", "Ravi", Gender(<<"M", "a", "l", "e">>)),
      ReportStudent("s2", "Asha", Gender(<<"O", "t", "h", "e", "r">>))>>,
    MixedRoster }

\* the roster followed over time
RerunRosters == { MixedRoster }

ReportEvents ==
  [student_id : {"s1", "s2"}, date : ReportDates, status : {"present", "absent"}]

ReportLedgers ==
  UNION { { [k \in 1..n |-> [id |-> k, student_id |-> f[k].student_id,
                             date |-> f[k].date, status |-> f[k].status]] :
              f \in [1..n -> ReportEvents] } : n \in 0..MaxLedger }

\* AttendanceReports is mounted: lines 12-16
InitReport ==
  /\ students \in ReportRosters
  /\ attendance \in ReportLedgers
  /\ today = 1
  /\ libraryLoaded = TRUE
  /\ scanResult = ""
  /\ message = NoMsg
  /\ error = NoMsg
  /\ isScannerActive = FALSE
  /\ todayAttendance = <<>>
  /\ html5QrcodeScannerRef = 0
  /\ scannedStudentsRef = {}
  /\ cooldownTimers = {}
  /\ messageTimers = {}
  /\ startTimers = <<>>
  /\ scanners = [i \in ScannerIds |-> FreeScanner]
  /\ clears = {}
  /\ sinceProcessed = [t \in DecodedTexts |-> CooldownTicks]
  /\ failedWrites = {}
  /\ startDate = getFormattedDate(today)
  /\ endDate = getFormattedDate(today)
  /\ reportData = NoReport
  /\ loading = TRUE
  /\ firstReport = NoReport
  /\ RegistrationNotShown
  /\ controllers = NoControllers

scanVars == << scanResult, message, error, isScannerActive, todayAttendance,
               html5QrcodeScannerRef, scannedStudentsRef, cooldownTimers,
               messageTimers, startTimers, scanners, clears, sinceProcessed >>

\* one run of the calculateReports callback with the period of the render
\* it belongs to: lines 18-108
RunCalculateReports(start, end) ==
  /\ reportData' = calculateReports(students, attendance, start, end)
  /\ loading' = FALSE
  /\ firstReport' =
       IF firstReport = NoReport
       THEN [start |-> start, end |-> end, report |-> reportData', again |-> FALSE]
       ELSE [firstReport EXCEPT
               !.again = (start = firstReport.start /\ end = firstReport.end)]
  /\ UNCHANGED << storeVars, today, libraryLoaded, scanVars, registrationVars,
                  controllers >>

\* the effect of lines 110-112 after the component was mounted
MountEffect ==
  /\ reportData = NoReport
  /\ loading
  /\ RunCalculateReports(startDate, endDate)
  /\ UNCHANGED << startDate, endDate >>

\* onChange of the From date input (line 142), which is rendered once a
\* report is shown, and the effect its re-render runs before the next event;
\* d is a date picked in the input
SetStartDate(d) ==
  /\ ~loading
  /\ d # startDate
  /\ startDate' = d
  /\ RunCalculateReports(d, endDate)
  /\ UNCHANGED endDate

\* onChange of the To date input (line 152)
SetEndDate(d) ==
  /\ ~loading
  /\ d # endDate
  /\ endDate' = d
  /\ RunCalculateReports(startDate, d)
  /\ UNCHANGED startDate

NextReport ==
  \/ MountEffect
  \/ \E d \in ReportDates : SetStartDate(d)
  \/ \E d \in ReportDates : SetEndDate(d)

SpecReport == InitReport /\ [][NextReport]_vars

\* The reports of one roster followed over time: the period is changed and
\* changed back, and the clock moves on between the runs.
InitRerun == InitReport /\ students \in RerunRosters

NextRerun ==
  \/ MountEffect
  \/ \E d \in ReportDates : SetStartDate(d)
  \/ \E d \in ReportDates : SetEndDate(d)
  \/ DayChange

SpecRerun == InitRerun /\ [][NextRerun]_vars

\* ------------------------------------------------------- registration
\* StudentRegistration, its QRCodeGenerator child and performOcr.  The image
\* preview and the API key prompt are not followed: a key is selected, so
\* the file input and the Extract button are enabled.
\* uuidv4 draws 122 random bits; two calls are taken to return different
\* identifiers, the n-th call the n-th entry
UuidTable == << "u1", "u2", "u3", "u4", "u5", "u6" >>
uuidv4(n) == UuidTable[n + 1]

\* JavaScript values that cross the OCR and QR interfaces
Undefined == [t |-> "undefined"]
JsNull == [t |-> "null"]
Str(chars) == [t |-> "string", s |-> chars]
EmptyString == Str(<< >>)

\* QRCode.toDataURL: the image encodes the text it was made from
toDataURL(text) == [t |-> "dataUrl", text |-> text]

\* ToBoolean
truthy(v) == \/ v.t = "dataUrl"
             \/ v.t = "string" /\ v.s # << >>

\* constants.ts
FALLBACK_OCR_VALUE == << "N", "/", "A" >>
DEFAULT_SCHOOL_NAME == << "S", "m", "a", "r", "t", " ", "S", "c", "h", "o", "o", "l" >>
DEFAULT_SECTION == << "U", "n", "k", "n", "o", "w", "n" >>
GENDER_OPTIONS ==
  << << "U", "n", "k", "n", "o", "w", "n" >>, << "M", "a", "l", "e" >>,
     << "F", "e", "m", "a", "l", "e" >>, << "O", "t", "h", "e", "r" >> >>
CLASS_OPTIONS ==
  << << "U", "n", "k", "n", "o", "w", "n" >>, << "N", "u", "r", "s", "e", "r", "y" >>,
     << "L", "K", "G" >>, << "U", "K", "G" >>, << "1", "s", "t" >>, << "2", "n", "d" >>,
     << "3", "r", "d" >>, << "4", "t", "h" >>, << "5", "t", "h" >>, << "6", "t", "h" >>,
     << "7", "t", "h" >>, << "8", "t", "h" >>, << "9", "t", "h" >>,
     << "1", "0", "t", "h" >>, << "1", "1", "t", "h" >>, << "1", "2", "t", "h" >> >>

OcrFields == { "name", "father_name", "school_name", "class", "section",
               "roll_number", "gender" }

\* the value read from a property of a parsed JSON value
property(value, f) ==
  IF value.t = "object" THEN value.fields[f] ELSE Undefined

Threw == [threw |-> TRUE]
Returned(v) == [threw |-> FALSE, value |-> v]

\* geminiService.ts lines 32-93, given the outcome of generateContent:
\* "rejected", or a response text that is JSON or not
performOcr(response) ==
  IF response.kind = "rejected" THEN Threw
  ELSE IF ~response.json THEN Threw                \* JSON.parse: SyntaxError
  ELSE IF response.value.t = "null" THEN Threw     \* result.name: TypeError
  ELSE Returned([f \in OcrFields |->
         LET v == property(response.value, f)
         IN IF truthy(v) THEN v ELSE JsNull])

\* part_003 lines 79-86
normalizeGender(gender) ==
  IF ~truthy(gender) THEN GENDER_OPTIONS[1]
  ELSE LET lowerCaseGender == toLowerCase(gender.s)
       IN IF \/ includes(lowerCaseGender, << "m", "a", "l", "e" >>)
             \/ includes(lowerCaseGender, << "b", "o", "y" >>)
          THEN << "M", "a", "l", "e" >>
          ELSE IF \/ includes(lowerCaseGender, << "f", "e", "m", "a", "l", "e" >>)
                  \/ includes(lowerCaseGender, << "g", "i", "r", "l" >>)
          THEN << "F", "e", "m", "a", "l", "e" >>
          ELSE IF includes(lowerCaseGender, << "o", "t", "h", "e", "r" >>)
          THEN << "O", "t", "h", "e", "r" >>
          ELSE GENDER_OPTIONS[1]

\* part_003 lines 89-96: the first option that contains the text or is
\* contained in it, case ignored
normalizeClass(className) ==
  IF ~truthy(className) THEN CLASS_OPTIONS[1]
  ELSE LET matches(k) ==
             \/ includes(toLowerCase(className.s), toLowerCase(CLASS_OPTIONS[k]))
             \/ includes(toLowerCase(CLASS_OPTIONS[k]), toLowerCase(className.s))
           found == { k \in 1..Len(CLASS_OPTIONS) : matches(k) }
       IN IF found = {} THEN CLASS_OPTIONS[1]
          ELSE CLASS_OPTIONS[CHOOSE k \in found : \A j \in found : k <= j]

\* value || fallback on a field of the OCR result
orElse(v, fallback) == IF truthy(v) THEN v.s ELSE fallback

\* part_003 lines 99-107
DefaultDetails ==
  [name        |-> FALLBACK_OCR_VALUE,
   father_name |-> FALLBACK_OCR_VALUE,
   school_name |-> DEFAULT_SCHOOL_NAME,
   class       |-> CLASS_OPTIONS[1],
   section     |-> DEFAULT_SECTION,
   roll_number |-> FALLBACK_OCR_VALUE,
   gender      |-> GENDER_OPTIONS[1]]

\* part_003 lines 204-212
detailsOf(result) ==
  [name        |-> orElse(result.name, FALLBACK_OCR_VALUE),
   father_name |-> orElse(result.father_name, FALLBACK_OCR_VALUE),
   school_name |-> orElse(result.school_name, DEFAULT_SCHOOL_NAME),
   class       |-> normalizeClass(result.class),
   section     |-> orElse(result.section, DEFAULT_SECTION),
   roll_number |-> orElse(result.roll_number, FALLBACK_OCR_VALUE),
   gender      |-> normalizeGender(result.gender)]

\* part_001 lines 22-26; stored = FALSE when localStorage.setItem throws
saveStudent(studs, student, stored) ==
  IF stored THEN Append(studs, student) ELSE studs

\* useState initial values, part_003 lines 20-28 and 99-107; error and
\* message hold the kind of the text shown, "" for null
MountedRegistration ==
  [selectedFile           |-> FALSE,
   ocrResult              |-> JsNull,
   studentId              |-> "",
   qrCodeDataUrl          |-> JsNull,
   loading                |-> FALSE,
   error                  |-> "",
   message                |-> "",
   manualInputMode        |-> FALSE,
   editableStudentDetails |-> DefaultDetails]

\* the identifier is left in the form
resetForm_KeepsId(r) ==
  [r EXCEPT !.selectedFile = FALSE,
            !.ocrResult = JsNull,
            !.editableStudentDetails = DefaultDetails,
            !.error = "",
            !.message = ""]

\* part_003 lines 111-131, applied to the state r
resetForm(r) ==
  [r EXCEPT !.selectedFile = FALSE,
            !.ocrResult = JsNull,
            !.studentId = "",
            !.qrCodeDataUrl = JsNull,
            !.editableStudentDetails = DefaultDetails,
            !.error = "",
            !.message = ""]

\* ---- what the OCR service may answer
Card(name, class, roll, gender) ==
  [t |-> "object",
   fields |-> [f \in OcrFields |->
     CASE f = "name" -> name
       [] f = "class" -> class
       [] f = "roll_number" -> roll
       [] f = "gender" -> gender
       [] OTHER -> Undefined]]

GenderTexts ==
  { Str(<< "F", "e", "m", "a", "l", "e" >>), Str(<< "M", "A", "L", "E" >>),
    Str(<< "G", "i", "r", "l" >>), Str(<< "b", "o", "y" >>),
    Str(<< "O", "t", "h", "e", "r" >>), Str(<< "F" >>),
    EmptyString, JsNull, Undefined }

OcrResponses ==
  { [kind |-> "rejected"],
    [kind |-> "text", json |-> FALSE],
    [kind |-> "text", json |-> TRUE, value |-> JsNull],
    [kind |-> "text", json |-> TRUE, value |-> [t |-> "array"]],
    [kind |-> "text", json |-> TRUE,
     value |-> Card(EmptyString, Undefined, JsNull, Undefined)] }
  \cup { [kind |-> "text", json |-> TRUE,
          value |-> Card(Str(<< "R", "a", "v", "i" >>), Str(<< "9" >>),
                         Str(<< "1", "2" >>), g)] : g \in GenderTexts }

\* the answers followed where the identifiers are what matters: a failure
\* and a card that was read in full
RegistrationResponses ==
  { [kind |-> "rejected"],
    [kind |-> "text", json |-> TRUE,
     value |-> Card(Str(<< "R", "a", "v", "i" >>), Str(<< "9" >>),
                    Str(<< "1", "2" >>), Str(<< "b", "o", "y" >>))] }

\* what is typed or selected in the details form
TypedValues ==
  { << "name", << "R", "a", "v", "i" >> >>,
    << "roll_number", << "1", "2" >> >>,
    << "class", CLASS_OPTIONS[13] >> }

\* ---- the component
InitRegistration ==
  /\ students = << >>
  /\ attendance = <<>>
  /\ today = 1
  /\ libraryLoaded = TRUE
  /\ scanResult = ""
  /\ message = NoMsg
  /\ error = NoMsg
  /\ isScannerActive = FALSE
  /\ todayAttendance = <<>>
  /\ html5QrcodeScannerRef = 0
  /\ scannedStudentsRef = {}
  /\ cooldownTimers = {}
  /\ messageTimers = {}
  /\ startTimers = <<>>
  /\ scanners = [i \in ScannerIds |-> FreeScanner]
  /\ clears = {}
  /\ sinceProcessed = [t \in DecodedTexts |-> CooldownTicks]
  /\ failedWrites = {}
  /\ ReportsNotShown
  /\ controllers = NoControllers
  /\ registration = MountedRegistration
  /\ qrInFlight = {}
  /\ ocrInFlight = FALSE
  /\ uuids = 0

offRegistrationVars == << attendance, today, libraryLoaded, failedWrites, scanVars,
                          reportVars, controllers >>

\* The render that follows a handler and the effects of that render: the
\* effect of lines 133-141 gives the form an identifier when it has none and
\* is in manual mode or has a file, and the effect of QRCodeGenerator (part_001
\* lines 109-136) starts a generation when the text it is given is a new one.
\* r is the state the handler has set and n the number of identifiers drawn
\* so far.
Commit(r, n) ==
  LET draws == r.studentId = "" /\ (r.manualInputMode \/ r.selectedFile)
      rendered == IF draws THEN [r EXCEPT !.studentId = uuidv4(n)] ELSE r
  IN  /\ (IF draws THEN n + 1 ELSE n) <= MaxUuids
      /\ registration' = rendered
      /\ uuids' = IF draws THEN n + 1 ELSE n
      /\ qrInFlight' =
           IF rendered.studentId # "" /\ rendered.studentId # registration.studentId
           THEN qrInFlight \cup { rendered.studentId }
           ELSE qrInFlight

\* lines 144-176; file = FALSE when the dialog was closed with no file
HandleFileChange(file) ==
  /\ LET cleared == [registration EXCEPT !.error = "", !.message = ""]
     IN IF file
        THEN IF registration.studentId = ""
             THEN Commit([cleared EXCEPT !.selectedFile = TRUE,
                                         !.studentId = uuidv4(uuids)], uuids + 1)
             ELSE Commit([cleared EXCEPT !.selectedFile = TRUE], uuids)
        ELSE IF ~registration.manualInputMode
             THEN Commit([cleared EXCEPT !.selectedFile = FALSE,
                                         !.ocrResult = JsNull,
                                         !.studentId = "",
                                         !.qrCodeDataUrl = JsNull,
                                         !.editableStudentDetails = DefaultDetails],
                         uuids)
             ELSE Commit([cleared EXCEPT !.selectedFile = FALSE], uuids)
  /\ UNCHANGED << students, ocrInFlight, offRegistrationVars >>

\* lines 178-196: handleExtractDetails up to its first await; the button is
\* rendered in OCR mode and enabled with a file and no extraction running
HandleExtractDetails ==
  /\ ~registration.manualInputMode
  /\ ~registration.loading
  /\ registration.selectedFile
  /\ ~ocrInFlight
  /\ LET r == [registration EXCEPT !.loading = TRUE, !.error = "", !.message = "",
                                   !.ocrResult = JsNull, !.qrCodeDataUrl = JsNull]
     IN IF registration.studentId = ""
        THEN Commit([r EXCEPT !.studentId = uuidv4(uuids)], uuids + 1)
        ELSE Commit(r, uuids)
  /\ ocrInFlight' = TRUE
  /\ UNCHANGED << students, offRegistrationVars >>

\* lines 198-237: handleExtractDetails after its awaits
ExtractSettle(response) ==
  /\ ocrInFlight
  /\ ocrInFlight' = FALSE
  /\ LET result == performOcr(response)
     IN IF ~result.threw
        THEN Commit([registration EXCEPT
                       !.ocrResult = result.value,
                       !.editableStudentDetails = detailsOf(result.value),
                       !.message = "ocr_successful",
                       !.loading = FALSE], uuids)
        ELSE Commit([registration EXCEPT !.error = "ocr_failed",
                                         !.loading = FALSE], uuids)
  /\ UNCHANGED << students, offRegistrationVars >>

\* part_001 lines 117-128 and part_003 lines 240-242: a generation resolves
QrResolve(text) ==
  /\ text \in qrInFlight
  /\ registration' = [registration EXCEPT !.qrCodeDataUrl = toDataURL(text)]
  /\ qrInFlight' = qrInFlight \ { text }
  /\ UNCHANGED << students, ocrInFlight, uuids, offRegistrationVars >>

\* part_001 lines 129-133: a generation fails
QrReject(text) ==
  /\ text \in qrInFlight
  /\ registration' = [registration EXCEPT !.qrCodeDataUrl = EmptyString]
  /\ qrInFlight' = qrInFlight \ { text }
  /\ UNCHANGED << students, ocrInFlight, uuids, offRegistrationVars >>

\* onChange of an input of the details form, lines 407-469
SetEditableStudentDetails(field, value) ==
  /\ registration.editableStudentDetails[field] # value
  /\ Commit([registration EXCEPT !.editableStudentDetails[field] = value], uuids)
  /\ UNCHANGED << students, ocrInFlight, offRegistrationVars >>

\* the record built at lines 259-271
newStudent(r) ==
  [id          |-> r.studentId,
   name        |-> r.editableStudentDetails.name,
   father_name |-> r.editableStudentDetails.father_name,
   school_name |-> r.editableStudentDetails.school_name,
   class       |-> r.editableStudentDetails.class,
   section     |-> r.editableStudentDetails.section,
   roll_number |-> r.editableStudentDetails.roll_number,
   gender      |-> r.editableStudentDetails.gender,
   qr_image_url |-> r.qrCodeDataUrl]

\* lines 244-282; the button is enabled as line 491 says
HandleSaveStudent(stored) ==
  /\ ~registration.loading
  /\ registration.studentId # ""
  /\ truthy(registration.qrCodeDataUrl)
  /\ registration.editableStudentDetails.name # << >>
  /\ registration.editableStudentDetails.name # FALLBACK_OCR_VALUE
  /\ IF \/ registration.studentId = ""
        \/ ~truthy(registration.qrCodeDataUrl)
     THEN /\ Commit([registration EXCEPT !.error = "no_id_or_qr"], uuids)
          /\ UNCHANGED students
     ELSE IF \/ registration.editableStudentDetails.name = FALLBACK_OCR_VALUE
             \/ registration.editableStudentDetails.roll_number = FALLBACK_OCR_VALUE
             \/ registration.editableStudentDetails.class = CLASS_OPTIONS[1]
     THEN /\ Commit([registration EXCEPT !.error = "essential_fields"], uuids)
          /\ UNCHANGED students
     ELSE /\ students' = saveStudent(students, newStudent(registration), stored)
          /\ IF stored
             THEN Commit(resetForm(registration), uuids)
             ELSE Commit([registration EXCEPT !.error = "save_failed"], uuids)
  /\ UNCHANGED << ocrInFlight, offRegistrationVars >>

\* lines 298-307
HandleToggleInputMode ==
  /\ LET newMode == ~registration.manualInputMode
         r == [resetForm(registration) EXCEPT !.manualInputMode = newMode]
     IN IF newMode
        THEN Commit([r EXCEPT !.studentId = uuidv4(uuids)], uuids + 1)
        ELSE Commit(r, uuids)
  /\ UNCHANGED << students, ocrInFlight, offRegistrationVars >>

\* the Reset Form button, line 504, rendered while the form has an identifier
ResetForm ==
  /\ registration.studentId # ""
  /\ Commit(resetForm(registration), uuids)
  /\ UNCHANGED << students, ocrInFlight, offRegistrationVars >>

NextRegistration ==
  \/ \E file \in BOOLEAN : HandleFileChange(file)
  \/ HandleExtractDetails
  \/ \E response \in RegistrationResponses : ExtractSettle(response)
  \/ \E text \in qrInFlight : QrResolve(text)
  \/ \E text \in qrInFlight : QrReject(text)
  \/ \E tv \in TypedValues : SetEditableStudentDetails(tv[1], tv[2])
  \/ \E stored \in BOOLEAN : HandleSaveStudent(stored)
  \/ HandleToggleInputMode
  \/ ResetForm

SpecRegistration == InitRegistration /\ [][NextRegistration]_vars

\* Cards registered by extraction alone, whatever the service answers: the
\* operator picks a photo, extracts, and saves what was extracted.
NextOcr ==
  \/ \E file \in BOOLEAN : HandleFileChange(file)
  \/ HandleExtractDetails
  \/ \E response \in OcrResponses : ExtractSettle(response)
  \/ \E text \in qrInFlight : QrResolve(text)
  \/ \E stored \in BOOLEAN : HandleSaveStudent(stored)

SpecOcr == InitRegistration /\ [][NextOcr]_vars

\* ------------------------------------------------------- several tabs
\* The application open in several tabs of one browser, the scanner running
\* in each: every tab runs its own onScanSuccess, and all of them read and
\* write the one localStorage entry of the ledger.  Inside a tab the handler
\* runs to completion; between tabs nothing orders the storage calls, so a
\* handler is followed here storage call by storage call: the getItem of
\* isStudentAlreadyPresentToday (line 956), the getItem of
\* saveAttendanceRecord (part_001 line 66) and its setItem (line 68).  The
\* cooldown of a tab only delays its next decode of a text and is left out.
\* the two tabs
ControllerIds == {"tabA", "tabB"}

IdleController == [pc |-> "idle", decodedText |-> "", records |-> << >>]

\* no tab is inside onScanSuccess
InitTabs ==
  /\ students \in Rosters
  /\ attendance = <<>>
  /\ today = 1
  /\ libraryLoaded = TRUE
  /\ scanResult = ""
  /\ message = NoMsg
  /\ error = NoMsg
  /\ isScannerActive = FALSE
  /\ todayAttendance = <<>>
  /\ html5QrcodeScannerRef = 0
  /\ scannedStudentsRef = {}
  /\ cooldownTimers = {}
  /\ messageTimers = {}
  /\ startTimers = <<>>
  /\ scanners = [i \in ScannerIds |-> FreeScanner]
  /\ clears = {}
  /\ sinceProcessed = [t \in DecodedTexts |-> CooldownTicks]
  /\ failedWrites = {}
  /\ ReportsNotShown
  /\ RegistrationNotShown
  /\ controllers = [c \in ControllerIds |-> IdleController]

tabVars == << students, today, libraryLoaded, failedWrites, scanVars, reportVars,
              registrationVars >>

\* lines 947-959 in tab c: the lookup of the student and the duplicate check
ControllerCheck(c, decodedText) ==
  /\ controllers[c].pc = "idle"
  /\ Len(attendance) < MaxTabLedger   \* decodes are followed up to this length
  /\ controllers' = [controllers EXCEPT ![c] =
       IF \/ getStudentById(students, decodedText) = <<>>
          \/ isStudentAlreadyPresentToday(attendance, decodedText, today)
       THEN IdleController
       ELSE [pc |-> "checked", decodedText |-> decodedText, records |-> << >>]]
  /\ UNCHANGED << attendance, tabVars >>

\* part_001 line 66 in tab c: saveAttendanceRecord reads the stored list
ControllerRead(c) ==
  /\ controllers[c].pc = "checked"
  /\ controllers' = [controllers EXCEPT ![c].pc = "read",
                                        ![c].records = attendance]
  /\ UNCHANGED << attendance, tabVars >>

\* part_001 lines 67-68 in tab c: the list read, with the new event pushed,
\* replaces the stored one
ControllerWrite(c, stored) ==
  /\ controllers[c].pc = "read"
  /\ attendance' = saveAttendanceRecord(controllers[c].records,
         newRecord(controllers[c].records, controllers[c].decodedText, today),
         stored)
  /\ controllers' = [controllers EXCEPT ![c] = IdleController]
  /\ UNCHANGED tabVars

NextTabs ==
  \/ \E c \in ControllerIds, t \in DecodedTexts : ControllerCheck(c, t)
  \/ \E c \in ControllerIds : ControllerRead(c)
  \/ \E c \in ControllerIds, stored \in BOOLEAN : ControllerWrite(c, stored)

SpecTabs == InitTabs /\ [][NextTabs]_vars

\* ------------------------------------------------------- properties
Registered(t) == \E k \in 1..Len(students) : students[k].id = t

PresentCount(records, sid, d) ==
  Cardinality({ k \in 1..Len(records) :
                  /\ records[k].student_id = sid
                  /\ records[k].date = d
                  /\ records[k].status = "present" })

EventCount(records, sid, d) ==
  Cardinality({ k \in 1..Len(records) :
                  records[k].student_id = sid /\ records[k].date = d })

\* a decode of t that is not suppressed by the cooldown
Processed(i, t) == OnScanSuccess(i, t) /\ t \notin scannedStudentsRef

CompleteEvent(r) ==
  /\ DOMAIN r = {"id", "student_id", "date", "status"}
  /\ r.id \in 1..Len(attendance)
  /\ r.student_id \in DecodedTexts
  /\ r.date \in Days
  /\ r.status = "present"

\* C1: with the scan controller as the only writer, after any sequence of
\* decodes, cooldown expiries, starts, stops and day changes the ledger holds
\* at most one 'present' event for every (student_id, date) pair.
C1_AtMostOnePresentPerStudentAndDate ==
  \A sid \in DecodedTexts, d \in Days : PresentCount(attendance, sid, d) <= 1

\* s1 was recorded on both days and a further decode of it was turned down
C1_Witness ==
  /\ today = 2
  /\ PresentCount(attendance, "s1", 1) = 1
  /\ PresentCount(attendance, "s1", 2) = 1
  /\ scanResult = "s1"
  /\ message.kind = "already_present"

\* C2: a decode of X less than 3 seconds after a decode of X that passed the
\* cooldown check is suppressed: it only shows the "was just scanned"
\* message, and changes neither the ledger, the roster, the last scanned id,
\* the error nor the cooldown.  So two decodes of X less than 3 seconds apart
\* make at most one ledger mutation.
C2_RepeatWithinCooldownIsSuppressed ==
  [][ \A i \in ScannerIds, t \in DecodedTexts :
        (OnScanSuccess(i, t) /\ sinceProcessed[t] < CooldownTicks)
        => /\ attendance' = attendance
           /\ students' = students
           /\ scanResult' = scanResult
           /\ error' = error
           /\ scannedStudentsRef' = scannedStudentsRef
           /\ cooldownTimers' = cooldownTimers
           /\ message' = Msg("just_scanned", t) ]_vars

\* s1 was recorded and decoded again two seconds later
C2_Witness ==
  /\ message = Msg("just_scanned", "s1")
  /\ sinceProcessed["s1"] = 2
  /\ PresentCount(attendance, "s1", today) = 1
  /\ Len(attendance) = 1

\* C3, as stated: whenever a registered student who already has a present
\* event today is decoded again, the call surfaces "already marked PRESENT"
\* and writes nothing.
C3_Original_SecondDecodeIsDuplicate ==
  [][ \A i \in ScannerIds, t \in DecodedTexts :
        (/\ OnScanSuccess(i, t)
         /\ Registered(t)
         /\ PresentCount(attendance, t, today) >= 1)
        => /\ message' = Msg("already_present", "")
           /\ attendance' = attendance ]_vars

\* C3, amended: a decode of a registered student who already has a present
\* event today, arriving when the identifier is not in cooldown, surfaces
\* "already marked PRESENT" and writes nothing, and the ledger holds exactly
\* one event for (that id, today).
C3_DuplicateAfterCooldown ==
  [][ \A i \in ScannerIds, t \in DecodedTexts :
        (/\ OnScanSuccess(i, t)
         /\ t \notin scannedStudentsRef
         /\ Registered(t)
         /\ PresentCount(attendance, t, today) >= 1)
        => /\ message' = Msg("already_present", "")
           /\ error' = NoMsg
           /\ attendance' = attendance
           /\ EventCount(attendance', t, today) = 1 ]_vars

\* the duplicate of s2 was turned down, the cooldown of that decode running
C3_Witness ==
  /\ message.kind = "already_present"
  /\ scanResult = "s2"
  /\ "s2" \in scannedStudentsRef
  /\ EventCount(attendance, "s2", today) = 1

\* C4: a decode that passes the cooldown check and finds no roster record
\* surfaces "student not found" and leaves the ledger and the roster as they
\* were.
C4_UnknownStudentChangesNothing ==
  [][ \A i \in ScannerIds, t \in DecodedTexts :
        (Processed(i, t) /\ ~Registered(t))
        => /\ error' = Msg("not_found", "")
           /\ message' = NoMsg
           /\ attendance' = attendance
           /\ students' = students ]_vars

C4_Witness ==
  /\ error.kind = "not_found"
  /\ scanResult = "s2"
  /\ ~Registered("s2")
  /\ attendance # <<>>

\* C5: a decode that passes the cooldown check, of a registered student with
\* no present event today, whose storage write succeeds, appends exactly one
\* complete event {student_id = text, date = today, status = present} after
\* all existing events and surfaces "marked PRESENT"; and every event of the
\* ledger is complete in every state, whenever a stop is issued.
C5_RecordAppendsOneCompleteEvent ==
  /\ [][ \A i \in ScannerIds, t \in DecodedTexts :
           (/\ Processed(i, t)
            /\ Registered(t)
            /\ PresentCount(attendance, t, today) = 0
            /\ error'.kind # "save_failed")
           => /\ Len(attendance') = Len(attendance) + 1
              /\ SubSeq(attendance', 1, Len(attendance)) = attendance
              /\ attendance'[Len(attendance')].student_id = t
              /\ attendance'[Len(attendance')].date = today
              /\ attendance'[Len(attendance')].status = "present"
              /\ \A k \in 1..Len(attendance) :
                   attendance[k].id # attendance'[Len(attendance')].id
              /\ message' = Msg("marked_present", "") ]_vars
  /\ [](\A k \in 1..Len(attendance) : CompleteEvent(attendance[k]))

\* an event was appended after an earlier one and Stop was pressed, its
\* teardown pending
C5_Witness ==
  /\ message.kind = "marked_present"
  /\ Len(attendance) >= 2
  /\ attendance[Len(attendance)].student_id = scanResult
  /\ \E c \in clears : c.stop

\* C6: every decode that passes the cooldown check puts its text into the
\* cooldown set for 3 seconds, whatever its outcome; so in every state a
\* text whose decode was processed less than 3 seconds ago is in the
\* cooldown set.
C6_EveryOutcomeStartsCooldown ==
  /\ [][ \A i \in ScannerIds, t \in DecodedTexts :
           Processed(i, t)
           => /\ t \in scannedStudentsRef'
              /\ [text |-> t, remaining |-> CooldownTicks] \in cooldownTimers' ]_vars
  /\ [](\A t \in DecodedTexts :
          sinceProcessed[t] < CooldownTicks => t \in scannedStudentsRef)

\* the write of s1 failed and the not-found decode of s2 came a second
\* later: both are in cooldown
C6_Witness ==
  /\ "s1" \in failedWrites
  /\ EventCount(attendance, "s1", today) = 0
  /\ error.kind = "not_found"
  /\ scannedStudentsRef = {"s1", "s2"}
  /\ sinceProcessed["s1"] = 1

\* C7: when the storage write of a processed decode fails, the ledger is
\* unchanged, the error is surfaced, the session is left as it was, and the
\* student still has no event today; a later processed decode of the same id
\* on the same date whose write succeeds records the event.
C7_FailedWriteIsRecoverable ==
  [][ \A i \in ScannerIds, t \in DecodedTexts :
        /\ (Processed(i, t) /\ error'.kind = "save_failed")
           => /\ attendance' = attendance
              /\ error' = Msg("save_failed", "")
              /\ EventCount(attendance', t, today') = 0
              /\ UNCHANGED << students, isScannerActive, html5QrcodeScannerRef,
                              scanners, clears, startTimers >>
        /\ (Processed(i, t) /\ t \in failedWrites /\ error'.kind # "save_failed")
           => /\ PresentCount(attendance', t, today) = 1
              /\ (PresentCount(attendance, t, today) = 0
                    => attendance' # attendance) ]_vars

\* the write of s1 failed today and a later decode recorded it, the session
\* still active
C7_Witness ==
  /\ "s1" \in failedWrites
  /\ PresentCount(attendance, "s1", today) = 1
  /\ isScannerActive
  /\ message.kind = "marked_present"

\* C8: onScanError ends the session (isScannerActive false, scanner
\* reference dropped) exactly when the error is of the fatal class; a
\* transient error leaves the session, the cooldown and everything else as
\* they were; neither class writes to the ledger.  Stated of every state in
\* which an instance can deliver the error: the step onScanError takes there
\* has that outcome.
C8_FatalOutcome(i, e) ==
  /\ OnScanError(i, e)
  /\ ~isScannerActive'
  /\ html5QrcodeScannerRef' = 0
  /\ error' = ScannerMsg
  /\ html5QrcodeScannerRef # 0
       => [inst |-> html5QrcodeScannerRef, stop |-> FALSE] \in clears'
  /\ UNCHANGED << students, attendance, scannedStudentsRef, cooldownTimers >>

C8_TransientOutcome(i, e) ==
  /\ OnScanError(i, e)
  /\ UNCHANGED vars

C8_OnlyFatalErrorsEndTheSession ==
  \A i \in ScannerIds, e \in ErrorMessages :
    scanners[i].scanning
    => IF e.class = "fatal"
       THEN ENABLED C8_FatalOutcome(i, e)
       ELSE ENABLED C8_TransientOutcome(i, e)

\* a fatal error ended a session in which a student had been recorded
C8_Witness ==
  /\ ~isScannerActive
  /\ html5QrcodeScannerRef = 0
  /\ error = ScannerMsg
  /\ message.kind = "marked_present"
  /\ \E c \in clears : ~c.stop /\ scanners[c.inst].scanning

\* C9: whenever the clear() started by stopScanner settles, by resolving or
\* by rejecting, the session is Idle.
C9_StopAlwaysEndsIdle ==
  [][ \A c \in clears :
        (c.stop /\ (ClearResolve(c) \/ ClearReject(c)))
        => ~isScannerActive' ]_vars

\* C10: a decode delivered while the session is Idle does not write to the
\* ledger.
C10_NoLedgerWriteWhileIdle ==
  [][ \A i \in ScannerIds, t \in DecodedTexts :
        (OnScanSuccess(i, t) /\ ~isScannerActive)
        => attendance' = attendance ]_vars

\* ------------------------------------------------------- properties of reports
\* the day a stored date string names
DayOfDate ==
  [date \in ReportDates |-> CHOOSE d \in ReportDays : getFormattedDate(d) = date]

DayOf(date) == DayOfDate[date]

\* the event is dated inside [startDate, endDate], both ends included
InPeriod(r) ==
  DayOf(startDate) <= DayOf(r.date) /\ DayOf(r.date) <= DayOf(endDate)

ReportShown == reportData # NoReport
RosterIds == { students[k].id : k \in 1..Len(students) }

\* the positions in the ledger of the events of sid inside the period
EventsOf(sid) ==
  { k \in 1..Len(attendance) :
      attendance[k].student_id = sid /\ InPeriod(attendance[k]) }

PresentEventsOf(sid) ==
  { k \in EventsOf(sid) : attendance[k].status = "present" }

Members(P(_)) == Cardinality({ k \in 1..Len(students) : P(students[k]) })

\* C11: totalPresentInPeriod is the number of roster members with at least
\* one 'present' event inside the period and totalAbsentInPeriod the number
\* of roster members with none, whatever the roster and the ledger.
C11_TotalsCountRosterMembers ==
  ReportShown
  => /\ reportData.totalPresentInPeriod =
          Members(LAMBDA m : PresentEventsOf(m.id) # {})
     /\ reportData.totalAbsentInPeriod =
          Members(LAMBDA m : PresentEventsOf(m.id) = {})

\* C12: for an empty roster, whatever the ledger and the period, the report
\* has totalStudents = 0, every derived count 0 and no per-student entry.
C12_EmptyRosterGivesZeroReport ==
  (ReportShown /\ students = <<>>)
  => /\ reportData.totalStudents = 0
     /\ reportData.totalPresentInPeriod = 0
     /\ reportData.totalAbsentInPeriod = 0
     /\ reportData.girlsPresentInPeriod = 0
     /\ reportData.girlsAbsentInPeriod = 0
     /\ reportData.boysPresentInPeriod = 0
     /\ reportData.boysAbsentInPeriod = 0
     /\ DOMAIN reportData.individualAttendance = {}

\* C13: no per-student history holds an event of a student that is not in
\* the roster, and the report is the report of the same roster and period
\* on the ledger with the orphan events removed.
C13_OrphanEventsChangeNothing ==
  ReportShown
  => /\ \A sid \in DOMAIN reportData.individualAttendance :
          \A k \in 1..Len(reportData.individualAttendance[sid].history) :
            reportData.individualAttendance[sid].history[k].student_id \in RosterIds
     /\ reportData =
          calculateReports(students,
                           SelectSeq(attendance, LAMBDA r : r.student_id \in RosterIds),
                           startDate, endDate)

\* the spellings of the rosters that name a girl, and those that name a boy
IsGirl(m) ==
  m.gender \in { Gender(<<"F", "e", "m", "a", "l", "e">>),
                 Gender(<<"G", "I", "R", "L">>), Gender(<<"g">>) }

IsBoy(m) ==
  m.gender \in { Gender(<<"M", "a", "l", "e">>), Gender(<<"B", "o", "y">>),
                 Gender(<<"b">>) }

\* C14: the period filter keeps exactly the events dated from startDate to
\* endDate, both days included: an event of the day before startDate or of
\* the day after endDate is left out, one dated startDate or endDate is
\* kept; and so every history holds exactly the student's events of those
\* days.
C14_PeriodIsInclusive ==
  ReportShown
  => /\ attendanceInPeriod(attendance, startDate, endDate)
          = SelectSeq(attendance, LAMBDA r : InPeriod(r))
     /\ \A sid \in RosterIds :
          LET history == reportData.individualAttendance[sid].history
          IN { history[k].id : k \in 1..Len(history) } = EventsOf(sid)

\* a one-day period: the event of that day is in the history, the event of
\* the day before is not
C14_Witness ==
  /\ ReportShown
  /\ startDate = endDate
  /\ Len(attendance) = 2
  /\ attendance[1].student_id = "s1" /\ attendance[2].student_id = "s1"
  /\ DayOf(attendance[1].date) = DayOf(startDate) - 1
  /\ attendance[2].date = endDate
  /\ "s1" \in RosterIds
  /\ reportData.individualAttendance["s1"].history = <<attendance[2]>>

C16_ReversedPeriodIsAllAbsent ==
  (ReportShown /\ DayOf(startDate) > DayOf(endDate))
  => /\ attendanceInPeriod(attendance, startDate, endDate) = <<>>
     /\ reportData.totalStudents = Len(students)
     /\ reportData.totalPresentInPeriod = 0
     /\ reportData.totalAbsentInPeriod = Len(students)
     /\ DOMAIN reportData.individualAttendance = RosterIds
     /\ \A sid \in RosterIds :
          /\ reportData.individualAttendance[sid].presentDays = 0
          /\ reportData.individualAttendance[sid].totalDays = 0
          /\ reportData.individualAttendance[sid].percentage = 0
          /\ reportData.individualAttendance[sid].history = <<>>

\* two students were present on the day between the two ends
C16_Witness ==
  /\ ReportShown
  /\ DayOf(startDate) = 3
  /\ DayOf(endDate) = 1
  /\ Len(students) = 2
  /\ Len(attendance) = 2
  /\ \A k \in 1..2 : /\ attendance[k].student_id = students[k].id
                      /\ DayOf(attendance[k].date) = 2
                      /\ attendance[k].status = "present"
  /\ reportData.totalAbsentInPeriod = 2

C19_PerStudentDaysAndPercentage ==
  ReportShown
  => /\ DOMAIN reportData.individualAttendance = RosterIds
     /\ Cardinality(RosterIds) = Len(students)
     /\ \A k \in 1..Len(students) :
          LET sid == students[k].id
              rec == reportData.individualAttendance[sid]
              exact == 10000 * rec.presentDays
              shown == rec.percentage * rec.totalDays
          IN /\ rec.name = students[k].name
             /\ rec.gender = students[k].gender
             /\ rec.presentDays
                  = Cardinality({ DayOf(attendance[j].date) : j \in PresentEventsOf(sid) })
             /\ rec.totalDays
                  = Cardinality({ DayOf(attendance[j].date) : j \in EventsOf(sid) })
             /\ IF rec.totalDays > 0
                THEN /\ 2 * (shown - exact) <= rec.totalDays
                     /\ 2 * (exact - shown) <= rec.totalDays
                ELSE rec.percentage = 0

\* two present events of one student on one day count as one day
C19_Witness ==
  /\ ReportShown
  /\ Len(attendance) = 2
  /\ attendance[1].student_id = "s1" /\ attendance[2].student_id = "s1"
  /\ attendance[1].date = attendance[2].date
  /\ attendance[1].status = "present" /\ attendance[2].status = "present"
  /\ "s1" \in RosterIds
  /\ reportData.individualAttendance["s1"].presentDays = 1
  /\ reportData.individualAttendance["s1"].totalDays = 1
  /\ reportData.individualAttendance["s1"].percentage = 10000

\* C20: the history of a student holds exactly the student's ledger events
\* dated inside the period, each once and as stored, by non-decreasing date,
\* events of one date in their ledger order; and a run of calculateReports
\* leaves the stored ledger as it was.
C20_HistoryIsChronologicalAndStable ==
  /\ [](ReportShown
         => \A sid \in RosterIds :
              LET history == reportData.individualAttendance[sid].history
              IN /\ Len(history) = Cardinality(EventsOf(sid))
                 /\ \A k \in 1..Len(history) :
                      /\ history[k].id \in EventsOf(sid)
                      /\ history[k] = attendance[history[k].id]
                 /\ \A j, k \in 1..Len(history) :
                      j < k
                      => \/ DayOf(history[j].date) < DayOf(history[k].date)
                         \/ /\ history[j].date = history[k].date
                            /\ history[j].id < history[k].id)
  /\ [][reportData' # reportData => attendance' = attendance]_vars

\* the ledger holds the later event of the student first: the history has
\* the two in the other order
C20_Witness ==
  /\ ReportShown
  /\ Len(attendance) = 2
  /\ attendance[1].student_id = "s1" /\ attendance[2].student_id = "s1"
  /\ DayOf(attendance[1].date) = 2
  /\ DayOf(attendance[2].date) = 1
  /\ "s1" \in RosterIds
  /\ reportData.individualAttendance["s1"].history = <<attendance[2], attendance[1]>>

\* ------------------------------------------------------- the ledger as a log
\* C21: the ledger is append-only.  Every step of the scan flow leaves the
\* previous ledger as a prefix of the new one; saveAttendanceRecord makes no
\* duplicate check: given an event the ledger already holds for the same
\* student, date and status, it returns the ledger with that event appended
\* at the end; and getAttendanceByDate returns exactly the events of the
\* date, in the order they are stored.
C21_LedgerIsAppendOnly ==
  /\ [][/\ Len(attendance') >= Len(attendance)
        /\ SubSeq(attendance', 1, Len(attendance)) = attendance]_vars
  /\ [](\A k \in 1..Len(attendance) :
          LET again == saveAttendanceRecord(attendance, attendance[k], TRUE)
          IN /\ Len(again) = Len(attendance) + 1
             /\ SubSeq(again, 1, Len(attendance)) = attendance
             /\ again[Len(again)] = attendance[k])
  /\ [](\A d \in Days :
          LET got == getAttendanceByDate(attendance, d)
          IN /\ Len(got) = Cardinality({ k \in 1..Len(attendance) :
                                           attendance[k].date = d })
             /\ \A k \in 1..Len(got) :
                  /\ got[k].date = d
                  /\ got[k].id \in 1..Len(attendance)
                  /\ attendance[got[k].id] = got[k]
             /\ \A j, k \in 1..Len(got) : j < k => got[j].id < got[k].id)

\* two students were recorded on one day, and the list of the day shows the
\* two events in the order of the ledger
C21_Witness ==
  /\ Len(attendance) = 2
  /\ attendance[1].date = today /\ attendance[2].date = today
  /\ attendance[1].student_id # attendance[2].student_id
  /\ todayAttendance = attendance
  /\ scannedStudentsRef = {}

\* ------------------------------------------------------- ranges of the report
\* C25: for every roster with unique ids and every ledger, events of
\* students outside the roster included, the counts of the report stay in
\* range: 0 <= totalPresentInPeriod <= totalStudents,
\* 0 <= totalAbsentInPeriod <= totalStudents, girls present + boys present
\* <= totalPresentInPeriod, and the four gender counts sum to at most
\* totalStudents.
C25_CountsWithinRange ==
  ReportShown
  => /\ 0 <= reportData.totalPresentInPeriod
     /\ reportData.totalPresentInPeriod <= reportData.totalStudents
     /\ 0 <= reportData.totalAbsentInPeriod
     /\ reportData.totalAbsentInPeriod <= reportData.totalStudents
     /\ reportData.girlsPresentInPeriod + reportData.boysPresentInPeriod
          <= reportData.totalPresentInPeriod
     /\ reportData.girlsPresentInPeriod + reportData.girlsAbsentInPeriod
          + reportData.boysPresentInPeriod + reportData.boysAbsentInPeriod
          <= reportData.totalStudents

\* C29: in every report, each roster member has presentDays <= totalDays
\* and a percentage between 0 and 100; and when every event of the ledger
\* has status 'present', each roster member has presentDays = totalDays and
\* a percentage of exactly 100 with at least one event inside the period,
\* of exactly 0 with none.
C29_PresentOnlyLedgerGivesHundredOrZero ==
  ReportShown
  => \A sid \in RosterIds :
       LET rec == reportData.individualAttendance[sid]
       IN /\ 0 <= rec.presentDays
          /\ rec.presentDays <= rec.totalDays
          /\ 0 <= rec.percentage
          /\ rec.percentage <= 10000
          /\ (\A k \in 1..Len(attendance) : attendance[k].status = "present")
             => /\ rec.presentDays = rec.totalDays
                /\ rec.percentage = IF EventsOf(sid) # {} THEN 10000 ELSE 0

\* a ledger of present events only: twice the same student on one day; the
\* student is at 100, the other member of the roster at 0
C29_Witness ==
  /\ ReportShown
  /\ students = MixedRoster
  /\ Len(attendance) = 2
  /\ \A k \in 1..2 : /\ attendance[k].status = "present"
                     /\ attendance[k].student_id = "s2"
                     /\ attendance[k].date = startDate
  /\ reportData.individualAttendance["s2"].percentage = 10000
  /\ reportData.individualAttendance["s2"].totalDays = 1
  /\ reportData.individualAttendance["s1"].percentage = 0
  /\ reportData.individualAttendance["s1"].totalDays = 0

\* ------------------------------------------------------- the start delay
\* C27: between one startScanner call and the next stop or fatal error,
\* render is invoked at most once, on at most one scanner instance: a
\* delayed start callback that renders finds no scanner referenced and none
\* rendering or scanning, also when a start, a stop and a second start all
\* fell inside the 100 ms delay of the first; and a stop during the delay
\* leaves no scanner behind, so while Idle with no teardown pending no
\* scanner renders or scans.
C27_RenderOncePerStart ==
  /\ [][(StartTimerFire /\ isScannerActive /\ libraryLoaded)
        => /\ html5QrcodeScannerRef = 0
           /\ \A i \in ScannerIds : ~scanners[i].rendering /\ ~scanners[i].scanning]_vars
  /\ []((~isScannerActive /\ clears = {} /\ html5QrcodeScannerRef = 0)
        => \A i \in ScannerIds : ~scanners[i].scanning)

\* ------------------------------------------------------- the cooldown window
\* C26: an identifier is in the cooldown set exactly while the one timer
\* scheduled at its insertion is pending, and that timer removes it 3
\* seconds after the insertion: a suppressed decode neither extends the
\* window nor schedules another removal, no second passes beyond the third
\* with the identifier still in the set, so a decode after the 3 seconds is
\* processed again; and every identifier in the set eventually leaves it,
\* so the set is eventually empty for good unless decodes keep being
\* processed.
C26_CooldownLastsThreeSeconds ==
  /\ [](\A t \in DecodedTexts :
          /\ t \in scannedStudentsRef
             <=> [text |-> t, remaining |-> CooldownTicks - sinceProcessed[t]]
                   \in cooldownTimers
          /\ Cardinality({ tm \in cooldownTimers : tm.text = t }) <= 1)
  /\ [][ \A tm \in cooldownTimers :
           CooldownExpire(tm)
           => /\ sinceProcessed[tm.text] = CooldownTicks
              /\ tm.text \notin scannedStudentsRef' ]_vars
  /\ [][ \A i \in ScannerIds, t \in DecodedTexts :
           (OnScanSuccess(i, t) /\ t \in scannedStudentsRef)
           => /\ cooldownTimers' = cooldownTimers
              /\ scannedStudentsRef' = scannedStudentsRef
              /\ sinceProcessed' = sinceProcessed ]_vars
  /\ [][ Tick => \A t \in DecodedTexts :
                   sinceProcessed[t] = CooldownTicks => t \notin scannedStudentsRef ]_vars
  /\ [][ \A i \in ScannerIds, t \in DecodedTexts :
           (OnScanSuccess(i, t) /\ t \notin scannedStudentsRef)
           => scanResult' = t /\ sinceProcessed'[t] = 0 ]_vars
  /\ \A t \in DecodedTexts :
       (t \in scannedStudentsRef) ~> (t \notin scannedStudentsRef)
  /\ \/ []<><<\E i \in ScannerIds, t \in DecodedTexts : Processed(i, t)>>_vars
     \/ <>[](scannedStudentsRef = {})

\* s1 was decoded again inside its window and has left the cooldown set
\* when its 3 seconds were over, while s2, decoded later, is still in it
C26_Witness ==
  /\ message = Msg("just_scanned", "s1")
  /\ "s1" \notin scannedStudentsRef
  /\ sinceProcessed["s1"] = CooldownTicks
  /\ "s2" \in scannedStudentsRef
  /\ sinceProcessed["s2"] = 2

\* ------------------------------------------------------- concurrent writers
\* C23: the duplicate check and the append are two storage accesses, not one
\* atomic step: a tab that passed the check appends to the list it reads
\* afterwards without looking at it again, so with two tabs on one ledger
\* both can pass the check for the same student and date and the ledger
\* ends with two 'present' events for the pair.
C23_CheckThenAppendIsNotAtomic ==
  /\ [][ \A c \in ControllerIds :
           (ControllerWrite(c, TRUE) /\ attendance' # attendance)
           => LET t == controllers[c].decodedText
              IN /\ PresentCount(attendance', t, today)
                      = PresentCount(controllers[c].records, t, today) + 1
                 /\ Len(attendance') = Len(controllers[c].records) + 1 ]_vars
  /\ [](\A c \in ControllerIds :
          controllers[c].pc = "read" => ENABLED ControllerWrite(c, TRUE))

\* both tabs passed the check for s1 and both have appended
C23_Witness ==
  /\ PresentCount(attendance, "s1", today) = 2
  /\ \A c \in ControllerIds : controllers[c].pc = "idle"

\* ------------------------------------------------------- registration
RosterPositions == 1..Len(students)

\* C22: whatever registration operations were made (file selection,
\* extraction, mode toggle, reset, save, failed save), no two records of the
\* roster share an id, and the identifier in the form is none that was
\* saved, so a saved id is never used for a later registration; the roster
\* only changes by one record appended at its end, a failed save leaves it
\* and the form's identifier as they were, and saveStudent rejects nothing:
\* given a record whose id the roster already holds, it appends it.
C22_RosterIdsAreUnique ==
  /\ [](\A j, k \in RosterPositions : j # k => students[j].id # students[k].id)
  /\ [](\A k \in RosterPositions :
          /\ students[k].id # registration.studentId
          /\ students[k].id # "")
  /\ [][students' # students
        => /\ Len(students') = Len(students) + 1
           /\ SubSeq(students', 1, Len(students)) = students
           /\ students'[Len(students')].id = registration.studentId]_vars
  /\ [][registration'.error = "save_failed"
        => /\ students' = students
           /\ registration'.studentId = registration.studentId]_vars
  /\ [](\A k \in RosterPositions :
          LET again == saveStudent(students, students[k], TRUE)
          IN /\ Len(again) = Len(students) + 1
             /\ SubSeq(again, 1, Len(students)) = students
             /\ again[Len(again)] = students[k])

\* two students are in the roster, and the save of a third has just failed
C22_Witness ==
  /\ Len(students) = 2
  /\ registration.error = "save_failed"
  /\ registration.studentId # ""

\* C28: every stored student has the QR image that was generated from the
\* student's own id, also when the id of the form changed while a
\* generation for an earlier id was in flight.
C28_StoredQrIsOfOwnId ==
  \A k \in RosterPositions : students[k].qr_image_url = toDataURL(students[k].id)

\* the responses that are a text but not a JSON object
MalformedResponse(response) ==
  /\ response.kind = "text"
  /\ ~response.json \/ response.value.t # "object"

\* C24: when the OCR service answers with a text, performOcr returns a
\* result and raises nothing: for a text that is not the expected JSON
\* object the seven fields of the result are all null, and for a JSON object
\* each field that is missing, null or empty is null and every other field
\* is as answered.
C24_MalformedOutputGivesAllNull ==
  [][ \A response \in OcrResponses :
        (ExtractSettle(response) /\ response.kind = "text")
        => /\ registration'.error = ""
           /\ registration'.ocrResult # JsNull
           /\ \A f \in OcrFields :
                registration'.ocrResult[f] =
                  IF /\ ~MalformedResponse(response)
                     /\ response.value.fields[f].t = "string"
                     /\ response.value.fields[f].s # << >>
                  THEN response.value.fields[f]
                  ELSE JsNull ]_vars

\* what C30 says of a gender text
ExpectedGender(g) ==
  IF g.t # "string" \/ g.s = << >> THEN << "U", "n", "k", "n", "o", "w", "n" >>
  ELSE LET lower == toLowerCase(g.s)
       IN IF \/ includes(lower, << "f", "e", "m", "a", "l", "e" >>)
             \/ includes(lower, << "g", "i", "r", "l" >>)
          THEN << "F", "e", "m", "a", "l", "e" >>
          ELSE IF \/ includes(lower, << "m", "a", "l", "e" >>)
                  \/ includes(lower, << "b", "o", "y" >>)
          THEN << "M", "a", "l", "e" >>
          ELSE IF includes(lower, << "o", "t", "h", "e", "r" >>)
          THEN << "O", "t", "h", "e", "r" >>
          ELSE << "U", "n", "k", "n", "o", "w", "n" >>

\* C30: the gender put into the form by an extraction is 'Female' for a
\* text that contains 'female' or 'girl' in any case, 'Male' for one that
\* contains 'male' or 'boy' and not 'female', 'Other' for one that contains
\* 'other', 'Unknown' for null, empty and any other text; it is one of
\* GENDER_OPTIONS.
C30_GenderIsNormalized ==
  [][ \A response \in OcrResponses :
        (ExtractSettle(response) /\ registration'.message = "ocr_successful")
        => LET out == registration'.editableStudentDetails.gender
           IN /\ \E k \in 1..Len(GENDER_OPTIONS) : out = GENDER_OPTIONS[k]
              /\ out = ExpectedGender(registration'.ocrResult.gender) ]_vars

====
